---- MODULE Spec2Model ----
(***************************************************************************)
(* A model of the JSONLT Table (src/src/table.ts): an in-memory            *)
(* Map<string, Record> behind open/get/has/put/delete/clear/compact.       *)
(*                                                                         *)
(* JavaScript values are pairs <<tag, payload>>.  Strings are sequences of *)
(* characters, so that String(n) and JSON.stringify are computed the way   *)
(* the runtime computes them and two keys collide in the Map exactly when  *)
(* their serializations are the same text.                                 *)
(***************************************************************************)
EXTENDS Integers, Sequences, FiniteSets, TLC

\* tables: the Table instances by handle, each with its fields (opened: open
\* has returned it); file, fileExists: the lines of the file at the path and
\* whether it is there; last: the last call with its handle, argument and
\* outcome; lastPut: for each key, the record of the latest put for it through
\* any handle, undefined once deleted or cleared
VARIABLES tables, file, fileExists, last, lastPut

\* the storage engine the design describes around the Table: lockHeld, the
\* processes holding the file's exclusive lock; pc, each process's position
\* in its write; view, the table state of the process that owns the Table;
\* txn, its transaction; authors, the writer of each line appended to the
\* file, with a mark for each compaction
VARIABLES lockHeld, pc, view, txn, authors

engineVars == <<lockHeld, pc, view, txn, authors>>

\* a replay of a sequence of operations in pieces: the sequence, how many
\* of its operations are folded in, and the table state they gave
VARIABLES replay

vars == <<tables, file, fileExists, last, lastPut, lockHeld, pc, view, txn,
          authors, replay>>

----------------------------------------------------------------------------
(* JavaScript values *)

Undef == <<"undefined", 0>>

Null == <<"null", 0>>

Bool(b) == <<"boolean", b>>

\* an integer-valued number
Num(n) == <<"number", n>>

\* the non-integer number w.f (f one decimal digit, not 0)
Frac(w, f) == <<"fraction", <<w, f>>>>

\* an integer beyond 32 bits, held by its decimal digits
Big(digits) == <<"bignumber", digits>>

\* s is a sequence of characters
Str(s) == <<"string", s>>

\* a is a sequence of values
Arr(a) == <<"array", a>>

\* members is a sequence of <<name, value>> in property order
Obj(members) == <<"object", members>>

\* a thrown error of the named class, as the outcome of a call
Throw(name) == <<"throw", name>>

typeof(x) ==
    CASE x[1] = "string" -> "string"
      [] x[1] \in {"number", "fraction", "bignumber"} -> "number"
      [] x[1] = "boolean" -> "boolean"
      [] x[1] = "undefined" -> "undefined"
      [] OTHER -> "object"

\* a ?? d
Nullish(a, d) == IF a[1] \in {"undefined", "null"} THEN d ELSE a

\* record[field]: the value of the property, undefined when there is none
RECURSIVE MemberAt(_, _, _)
MemberAt(members, field, i) ==
    IF i > Len(members) THEN Undef
    ELSE IF members[i][1] = field THEN members[i][2]
    ELSE MemberAt(members, field, i + 1)

Prop(record, field) == MemberAt(record[2], field, 1)

----------------------------------------------------------------------------
(* String(number) and JSON.stringify *)

DigitChar(d) == <<"0", "1", "2", "3", "4", "5", "6", "7", "8", "9">>[d + 1]

RECURSIVE Digits(_)
Digits(n) == IF n < 10 THEN <<DigitChar(n)>>
             ELSE Digits(n \div 10) \o <<DigitChar(n % 10)>>

\* String(x) for a number x
NumberToString(x) ==
    CASE x[1] = "number" ->
           IF x[2] < 0 THEN <<"-">> \o Digits(0 - x[2]) ELSE Digits(x[2])
      [] x[1] = "fraction" -> Digits(x[2][1]) \o <<".">> \o Digits(x[2][2])
      [] x[1] = "bignumber" -> x[2]

\* the body of a JSON string literal: quote and backslash are escaped
RECURSIVE Escape(_)
Escape(s) ==
    IF s = <<>> THEN <<>>
    ELSE (IF Head(s) \in {"\"", "\\"} THEN <<"\\", Head(s)>> ELSE <<Head(s)>>)
         \o Escape(Tail(s))

Quote(s) == <<"\"">> \o Escape(s) \o <<"\"">>

RECURSIVE StringifyText(_, _)
RECURSIVE JoinElements(_, _)
RECURSIVE JoinMembers(_, _, _)

\* JSON.stringify(x) as text; inArray: undefined is written as null
StringifyText(x, inArray) ==
    CASE x[1] = "string" -> Quote(x[2])
      [] x[1] \in {"number", "fraction", "bignumber"} -> NumberToString(x)
      [] x[1] = "boolean" ->
           IF x[2] THEN <<"t", "r", "u", "e">> ELSE <<"f", "a", "l", "s", "e">>
      [] x[1] = "array" -> <<"[">> \o JoinElements(x[2], 1) \o <<"]">>
      [] x[1] = "object" -> <<"{">> \o JoinMembers(x[2], 1, TRUE) \o <<"}">>
      [] OTHER -> <<"n", "u", "l", "l">>

JoinElements(a, i) ==
    IF i > Len(a) THEN <<>>
    ELSE (IF i > 1 THEN <<",">> ELSE <<>>)
         \o StringifyText(a[i], TRUE) \o JoinElements(a, i + 1)

\* members whose value is undefined are left out
JoinMembers(members, i, first) ==
    IF i > Len(members) THEN <<>>
    ELSE IF members[i][2] = Undef THEN JoinMembers(members, i + 1, first)
    ELSE (IF first THEN <<>> ELSE <<",">>)
         \o Quote(members[i][1]) \o <<":">>
         \o StringifyText(members[i][2], TRUE)
         \o JoinMembers(members, i + 1, FALSE)

\* JSON.stringify(x): undefined for undefined, a string otherwise
JSONstringify(x) == IF x = Undef THEN Undef ELSE Str(StringifyText(x, FALSE))

----------------------------------------------------------------------------
(* Map<string, Record>: a sequence of <<key, value>> in insertion order *)

RECURSIVE MapIndexFrom(_, _, _)
MapIndexFrom(m, k, i) ==
    IF i > Len(m) THEN 0
    ELSE IF m[i][1] = k THEN i
    ELSE MapIndexFrom(m, k, i + 1)

MapIndex(m, k) == MapIndexFrom(m, k, 1)

MapHas(m, k) == MapIndex(m, k) # 0

MapGet(m, k) == IF MapHas(m, k) THEN m[MapIndex(m, k)][2] ELSE Undef

\* an existing key keeps its position, a new key goes to the end
MapSet(m, k, v) ==
    IF MapHas(m, k) THEN [m EXCEPT ![MapIndex(m, k)] = <<k, v>>]
    ELSE Append(m, <<k, v>>)

MapDelete(m, k) ==
    IF MapHas(m, k)
    THEN SubSeq(m, 1, MapIndex(m, k) - 1) \o SubSeq(m, MapIndex(m, k) + 1, Len(m))
    ELSE m

MapValues(m) == [i \in 1..Len(m) |-> m[i][2]]

MapKeys(m) == [i \in 1..Len(m) |-> m[i][1]]

MapSize(m) == Len(m)

----------------------------------------------------------------------------
(* Names and inputs *)

F_id == <<"i", "d">>

F_v == <<"v">>

F_key == <<"_", "k", "e", "y">>

F_deleted == <<"$", "d", "e", "l", "e", "t", "e", "d">>

\* the string ["a"], the JSON text of the tuple key ["a"]
S_tupleA == <<"[", "\"", "a", "\"", "]">>

\* 2^53, the first integer above MAX_SAFE_INTEGER
TwoTo53 == Big(<<"9", "0", "0", "7", "1", "9", "9", "2", "5", "4", "7", "4", "0", "9", "9", "2">>)

\* the most entries the Map holds in the model
MaxLive == 2

\* the paths tables are opened on
Paths == {Str(<<"t">>)}

\* an options object; an omitted option is undefined
Opt(create, readOnly, key) ==
    [create |-> create, readOnly |-> readOnly, key |-> key,
     autoReload |-> Undef, lockTimeout |-> Undef]

\* {create, key, autoReload: true}
OptReload(create, key) ==
    [create |-> create, readOnly |-> Undef, key |-> key,
     autoReload |-> Bool(TRUE), lockTimeout |-> Undef]

\* the options objects open is called with
OpenOptions ==
    {Opt(Undef, Undef, Undef),
     Opt(Bool(TRUE), Undef, Undef),
     Opt(Bool(TRUE), Undef, Str(F_id)),
     Opt(Bool(TRUE), Undef, Arr(<<Str(F_id)>>)),
     Opt(Bool(TRUE), Bool(TRUE), Undef),
     Opt(Bool(TRUE), Bool(TRUE), Arr(<<Str(F_id)>>))}

\* key values the code's type Key admits: get, has and delete take these
KeyArgs ==
    {Str(<<"1">>), Num(1), Str(<<"a">>), Str(S_tupleA),
     Arr(<<Str(<<"a">>)>>), Arr(<<Num(1)>>)}

\* other values a record can hold in its key field
BadIdValues ==
    {Null, Bool(TRUE), Obj(<<>>), Frac(1, 5), TwoTo53}

\* the records put is called with
PutRecords ==
    {Obj(<<<<F_id, x>>>>) : x \in KeyArgs \cup BadIdValues}
    \cup {Obj(<<<<F_id, Str(<<"a">>)>>, <<F_v, Num(1)>>>>),
          Obj(<<<<F_key, Str(<<"a">>)>>, <<F_v, Num(1)>>>>),
          Obj(<<<<F_id, Str(<<"a">>)>>, <<F_deleted, Bool(TRUE)>>>>)}

----------------------------------------------------------------------------
(* Table *)

\* the handles a caller holds Table instances in
Handles == {1, 2}

\* the outcome of the last call: its handle, name, argument and what it returned
Call(h, op, arg, ret) == [h |-> h, op |-> op, arg |-> arg, ret |-> ret]

NoOptions ==
    [create |-> Undef, readOnly |-> Undef, key |-> Undef,
     autoReload |-> Undef, lockTimeout |-> Undef]

\* a handle no Table was opened into
NoTable ==
    [opened |-> FALSE, records |-> <<>>, keySpecifier |-> Undef,
     options |-> NoOptions, filePath |-> Undef]

\* the fields of the Table in handle h
opened(h) == tables[h].opened

records(h) == tables[h].records

keySpecifier(h) == tables[h].keySpecifier

options(h) == tables[h].options

filePath(h) == tables[h].filePath

\* the two processes that write the file: the one that owns the Table and
\* its transaction, and another writer
Owner == 1

External == 2

Procs == {Owner, External}

\* the keys and the operations of the storage engine
EngineKeys == {Str(<<"a">>), Num(1)}

\* a process that is not writing
NotWriting == [at |-> "idle", kind |-> "none", arg |-> Undef]

\* the table state of an empty file
EmptyState ==
    [state |-> [k \in EngineKeys |-> Undef],
     lastOffset |-> [k \in EngineKeys |-> 0]]

\* a transaction that has not begun; captured[k] is -1 until k is touched,
\* touchedAt[k] is the length of the file when it was
NoTransaction ==
    [status |-> "Idle", staged |-> <<>>,
     captured |-> [k \in EngineKeys |-> -1],
     touchedAt |-> [k \in EngineKeys |-> -1]]

\* no replay under way
NoReplay == [operations |-> <<>>, at |-> 0, state |-> EmptyState]

\* the storage engine at rest
EngineAtRest ==
    /\ lockHeld = {}
    /\ pc = [p \in Procs |-> NotWriting]
    /\ view = EmptyState
    /\ txn = NoTransaction
    /\ authors = <<>>
    /\ replay = NoReplay

Init ==
    /\ tables = [h \in Handles |-> NoTable]
    /\ file = <<>>
    /\ fileExists = FALSE
    /\ last = Call(0, "none", Undef, Undef)
    /\ lastPut = [k \in KeyArgs |-> Undef]
    /\ EngineAtRest

resolveOptions(o) ==
    [create |-> Nullish(o.create, Bool(FALSE)),
     readOnly |-> Nullish(o.readOnly, Bool(FALSE)),
     key |-> Nullish(o.key, Str(F_id)),
     autoReload |-> Nullish(o.autoReload, Bool(FALSE)),
     lockTimeout |-> Nullish(o.lockTimeout, Num(5000))]

\* Table.open: resolves the options and constructs a Table over an empty Map;
\* the file is neither looked for, read nor created
open(h, path, o) ==
    /\ ~opened(h)
    /\ tables' = [tables EXCEPT ![h] =
                     [opened |-> TRUE,
                      records |-> <<>>,
                      keySpecifier |-> resolveOptions(o).key,
                      options |-> resolveOptions(o),
                      filePath |-> path]]
    /\ last' = Call(h, "open",
                     Arr(<<path, o.create, o.readOnly, o.key, o.autoReload,
                           o.lockTimeout>>),
                     Undef)
    /\ UNCHANGED <<file, fileExists, lastPut, lockHeld, pc, view, txn,
                 authors, replay>>

serializeKey(key) ==
    IF typeof(key) = "string" THEN key
    ELSE IF typeof(key) = "number" THEN Str(NumberToString(key))
    ELSE JSONstringify(key)

extractKeyFromRecord(h, record) ==
    IF typeof(keySpecifier(h)) = "string"
    THEN Prop(record, keySpecifier(h)[2])
    ELSE Arr([i \in 1..Len(keySpecifier(h)[2]) |->
                 Prop(record, keySpecifier(h)[2][i][2])])

get(h, key) == MapGet(records(h), serializeKey(key))

has(h, key) == MapHas(records(h), serializeKey(key))

size(h) == MapSize(records(h))

all(h) == MapValues(records(h))

\* Table.values, Table.keys and Table.entries: what each iterator yields
values(h) == MapValues(records(h))

keys(h) == MapKeys(records(h))

entries(h) == [i \in 1..Len(records(h)) |->
                 Arr(<<records(h)[i][1], records(h)[i][2]>>)]

\* the accessors: get path(), get isReadOnly() and get key()
getPath(h) == filePath(h)

isReadOnly(h) == options(h).readOnly

getKey(h) == keySpecifier(h)

\* Table.put: stores the record under its serialized key; nothing is
\* validated and nothing is written to the file
put(h, record) ==
    /\ opened(h)
    /\ LET key == extractKeyFromRecord(h, record)
       IN /\ \/ MapHas(records(h), serializeKey(key))
             \/ MapSize(records(h)) < MaxLive
          /\ tables' = [tables EXCEPT ![h].records =
                           MapSet(records(h), serializeKey(key), record)]
          /\ lastPut' = IF key \in KeyArgs
                        THEN [lastPut EXCEPT ![key] = record]
                        ELSE lastPut
    /\ last' = Call(h, "put", record, Undef)
    /\ UNCHANGED <<file, fileExists, lockHeld, pc, view, txn, authors,
                   replay>>

\* Table.delete without its early return: every call removes and reports true
deleteUnconditional(h, key) ==
    /\ opened(h)
    /\ tables' = [tables EXCEPT ![h].records =
                     MapDelete(records(h), serializeKey(key))]
    /\ last' = Call(h, "delete", key, Bool(TRUE))
    /\ lastPut' = [lastPut EXCEPT ![key] = Undef]
    /\ UNCHANGED <<file, fileExists, lockHeld, pc, view, txn, authors,
                   replay>>

\* Table.delete
delete(h, key) ==
    /\ opened(h)
    /\ LET serialized == serializeKey(key)
       IN IF ~MapHas(records(h), serialized)
          THEN /\ tables' = tables
               /\ last' = Call(h, "delete", key, Bool(FALSE))
          ELSE /\ tables' = [tables EXCEPT ![h].records =
                                MapDelete(records(h), serialized)]
               /\ last' = Call(h, "delete", key, Bool(TRUE))
    /\ lastPut' = [lastPut EXCEPT ![key] = Undef]
    /\ UNCHANGED <<file, fileExists, lockHeld, pc, view, txn, authors,
                   replay>>

\* Table.clear that also forgets what the Table was opened with
clearEverything(h) ==
    /\ opened(h)
    /\ tables' = [tables EXCEPT ![h] = [NoTable EXCEPT !.opened = TRUE]]
    /\ last' = Call(h, "clear", Undef, Undef)
    /\ lastPut' = [k \in KeyArgs |-> Undef]
    /\ UNCHANGED <<file, fileExists, lockHeld, pc, view, txn, authors, replay>>

\* Table.clear caught midway: one entry is removed, the others stay
clearFirst(h) ==
    /\ opened(h)
    /\ tables' = [tables EXCEPT ![h].records =
                     IF records(h) = <<>> THEN <<>> ELSE Tail(records(h))]
    /\ last' = Call(h, "clear", Undef, Undef)
    /\ lastPut' = [k \in KeyArgs |-> Undef]
    /\ UNCHANGED <<file, fileExists, lockHeld, pc, view, txn, authors,
                   replay>>

\* Table.clear
clear(h) ==
    /\ opened(h)
    /\ tables' = [tables EXCEPT ![h].records = <<>>]
    /\ last' = Call(h, "clear", Undef, Undef)
    /\ lastPut' = [k \in KeyArgs |-> Undef]
    /\ UNCHANGED <<file, fileExists, lockHeld, pc, view, txn, authors,
                   replay>>

\* Table.compact: an empty body
compact(h) ==
    /\ opened(h)
    /\ last' = Call(h, "compact", Undef, Undef)
    /\ UNCHANGED <<tables, file, fileExists, lastPut, lockHeld, pc, view, txn,
                 authors, replay>>

\* one Table, in handle 1
Next ==
    \/ \E path \in Paths, o \in OpenOptions : open(1, path, o)
    \/ \E record \in PutRecords : put(1, record)
    \/ \E key \in KeyArgs : delete(1, key)
    \/ clear(1)
    \/ compact(1)

Spec == Init /\ [][Next]_vars

\* the most elements a tuple key may have
MAX_TUPLE_ELEMENTS == 16

\* seventeen field names, a to q
TupleFieldNames ==
    <<"a", "b", "c", "d", "e", "f", "g", "h", "i", "j", "k", "l", "m", "n",
      "o", "p", "q">>

\* the tuple key specifier of the first n of these fields
TupleSpecifier(n) == Arr([i \in 1..n |-> Str(<<TupleFieldNames[i]>>)])

\* key specifiers of 0, 1, 16 and 17 fields
OpenOptionsTuples ==
    {Opt(Bool(TRUE), Undef, TupleSpecifier(n)) :
        n \in {0, 1, MAX_TUPLE_ELEMENTS, MAX_TUPLE_ELEMENTS + 1}}

\* a record holding all seventeen fields: x in a, y in q, 1 in the others
TupleRecord(x, y) ==
    Obj([i \in 1..Len(TupleFieldNames) |->
            <<<<TupleFieldNames[i]>>,
              IF i = 1 THEN x
              ELSE IF i = Len(TupleFieldNames) THEN y ELSE Num(1)>>])

PutRecordsTuples ==
    {TupleRecord(x, y) : x \in {Num(1), Str(<<"a">>)}, y \in {Num(1), Num(2)}}

\* the tuple keys delete is called with
KeyArgsTuples == {Arr(<<Num(1)>>), Arr(<<Str(<<"a">>)>>)}

\* one Table with a tuple key
NextTuples ==
    \/ \E path \in Paths, o \in OpenOptionsTuples : open(1, path, o)
    \/ \E record \in PutRecordsTuples : put(1, record)
    \/ \E key \in KeyArgsTuples : delete(1, key)
    \/ clear(1)

SpecTuples == Init /\ [][NextTuples]_vars

\* the record a file that is there before any open may hold
ExistingRecord == Obj(<<<<F_id, Str(<<"a">>)>>>>)

\* two Tables on one path, and a file that may be there beforehand
InitHandles ==
    /\ tables = [h \in Handles |-> NoTable]
    /\ \/ fileExists = FALSE /\ file = <<>>
       \/ fileExists = TRUE /\ file = <<>>
       \/ fileExists = TRUE /\ file = <<ExistingRecord>>
    /\ last = Call(0, "none", Undef, Undef)
    /\ lastPut = [k \in KeyArgs |->
                    IF file # <<>> /\ k = Str(<<"a">>) THEN ExistingRecord
                    ELSE Undef]
    /\ EngineAtRest

OpenOptionsHandles ==
    {Opt(Undef, Undef, Undef),
     Opt(Bool(TRUE), Undef, Str(F_id)),
     OptReload(Bool(TRUE), Str(F_id))}

PutRecordsHandles ==
    {Obj(<<<<F_id, Str(<<"a">>)>>>>),
     Obj(<<<<F_id, Str(<<"a">>)>>, <<F_v, Num(1)>>>>),
     Obj(<<<<F_id, Num(1)>>>>)}

KeyArgsHandles == {Str(<<"a">>), Num(1)}

NextHandles ==
    \/ \E h \in Handles, path \in Paths, o \in OpenOptionsHandles :
          open(h, path, o)
    \/ \E h \in Handles, record \in PutRecordsHandles : put(h, record)
    \/ \E h \in Handles, key \in KeyArgsHandles : delete(h, key)
    \/ \E h \in Handles : clear(h)
    \/ \E h \in Handles : compact(h)

SpecHandles == InitHandles /\ [][NextHandles]_vars

----------------------------------------------------------------------------
(* Properties *)

Mutators == {"put", "delete", "clear", "compact"}

\* every key that can be asked for: the offered keys and each stored string
StoredKeys == {records(1)[i][1] : i \in 1..Len(records(1))}

KeyUniverse == KeyArgs \cup {k \in StoredKeys : typeof(k) = "string"}

\* C1: last write wins. For every key k, get(k) is the record of the most
\* recent put for k when no delete(k) or clear() came after it, and absent
\* otherwise.
C1_LastWriteWins == opened(1) => \A k \in KeyArgs : get(1, k) = lastPut[k]

\* C2: on a table opened with {create: true} and no key option, after a
\* record whose _key field is the string K was stored, get(K) returns that
\* record and has(K) is true.
C2_StoreByUnderscoreKey ==
    (/\ opened(1)
     /\ options(1).create = Bool(TRUE)
     /\ options(1).readOnly = Bool(FALSE)
     /\ keySpecifier(1) = Str(F_id)
     /\ last.op = "put"
     /\ typeof(Prop(last.arg, F_key)) = "string")
    => /\ get(1, Prop(last.arg, F_key)) = last.arg
       /\ has(1, Prop(last.arg, F_key))

\* C3: delete(k) returns true exactly when has(k) held right before the call,
\* and afterwards has(k) is false and get(k) is absent; when k was absent the
\* call returns false and changes neither the Map nor the file; a second
\* delete of the same key right after the first changes nothing and returns
\* false.
C3_Delete ==
    [][last'.op = "delete" =>
         /\ last'.ret = Bool(has(1, last'.arg))
         /\ ~MapHas(records(1)', serializeKey(last'.arg))
         /\ MapGet(records(1)', serializeKey(last'.arg)) = Undef
         /\ ~has(1, last'.arg) => (records(1)' = records(1) /\ file' = file)
         /\ (last.op = "delete" /\ last.arg = last'.arg)
            => (records(1)' = records(1) /\ last'.ret = Bool(FALSE))]_vars

\* a live key was deleted (true returned) while another entry stays
C3_Witness ==
    /\ last.op = "delete"
    /\ last.ret = Bool(TRUE)
    /\ ~has(1, last.arg)
    /\ size(1) > 0

\* C4: has(k) is true exactly when get(k) returns a record, and size is the
\* number of distinct keys k for which has(k) is true (0 right after open).
C4_HasGetSize ==
    opened(1) =>
       /\ \A k \in KeyUniverse : has(1, k) <=> get(1, k) # Undef
       /\ size(1) = Cardinality({k \in KeyUniverse : has(1, k)})
       /\ last.op = "open" => size(1) = 0

\* C5: on a table opened with readOnly: true every mutating call fails with
\* a ValidationError and the table stays as it was opened.
C5_ReadOnlyRejects ==
    (opened(1) /\ options(1).readOnly = Bool(TRUE) /\ last.op \in Mutators)
    => (last.ret = Throw("ValidationError") /\ records(1) = <<>> /\ file = <<>>)

\* the field names of the table's key specifier
SpecifierFields ==
    IF typeof(keySpecifier(1)) = "string" THEN {keySpecifier(1)[2]}
    ELSE {keySpecifier(1)[2][i][2] : i \in 1..Len(keySpecifier(1)[2])}

\* missing, null, a boolean, an object, an array, a non-integer number or an
\* integer outside -(2^53-1)..(2^53-1)
InvalidKeyValue(x) ==
    x[1] \in {"undefined", "null", "boolean", "object", "array",
              "fraction", "bignumber"}

InvalidKeyRecord(record) ==
    \E f \in SpecifierFields : InvalidKeyValue(Prop(record, f))

\* C6: put(record) fails with a KeyError and leaves the state unchanged when
\* a field named by the key specifier is missing or holds an invalid value;
\* no entry is ever stored under an invalid or undefined key.
C6_InvalidKeyRejected ==
    opened(1) =>
       /\ (last.op = "put" /\ InvalidKeyRecord(last.arg))
          => last.ret = Throw("KeyError")
       /\ \A i \in 1..Len(records(1)) :
             records(1)[i][1] # Undef /\ ~InvalidKeyRecord(records(1)[i][2])

HasDollarField(record) ==
    \E i \in 1..Len(record[2]) :
       record[2][i][1] # <<>> /\ record[2][i][1][1] = "$"

\* C7: put(record) fails with a ValidationError and leaves the state
\* unchanged when the record has a field whose name starts with $; no live
\* record has such a field.
C7_DollarFieldRejected ==
    opened(1) =>
       /\ (last.op = "put" /\ HasDollarField(last.arg))
          => last.ret = Throw("ValidationError")
       /\ \A i \in 1..Len(records(1)) : ~HasDollarField(records(1)[i][2])

ScalarKeys == {k \in KeyArgs : typeof(k) # "object"}

TupleKeys == {k \in KeyArgs : k[1] = "array"}

\* C8: a scalar key and a tuple key are distinct keys: a record stored under
\* one is not seen by get or has of the other, and delete of one does not
\* remove the other.
C8_ScalarTupleDistinct ==
    opened(1) =>
       \A s \in ScalarKeys, t \in TupleKeys :
          /\ (lastPut[t] # Undef /\ lastPut[s] = Undef)
             => (~has(1, s) /\ get(1, s) = Undef)
          /\ (lastPut[s] # Undef /\ lastPut[t] = Undef)
             => (~has(1, t) /\ get(1, t) = Undef)
          /\ (lastPut[t] # Undef /\ last.op = "delete" /\ last.arg = s)
             => get(1, t) = lastPut[t]
          /\ (lastPut[s] # Undef /\ last.op = "delete" /\ last.arg = t)
             => get(1, s) = lastPut[s]

\* C9: the integer key 1 and the string key "1" are different keys: with a
\* record put under each on a table keyed by "id", size is 2 and each get
\* returns its own record; delete(1) leaves the record under "1" live.
C9_IntegerStringDistinct ==
    (opened(1) /\ keySpecifier(1) = Str(F_id)) =>
       /\ (lastPut[Num(1)] # Undef /\ lastPut[Str(<<"1">>)] # Undef)
          => /\ size(1) >= 2
             /\ get(1, Num(1)) = lastPut[Num(1)]
             /\ get(1, Str(<<"1">>)) = lastPut[Str(<<"1">>)]
       /\ (lastPut[Str(<<"1">>)] # Undef /\ last.op = "delete"
           /\ last.arg = Num(1))
          => get(1, Str(<<"1">>)) = lastPut[Str(<<"1">>)]

\* characters in byte order
ByteOrder ==
    <<"\"", "$", ",", "-", ".", "0", "1", "2", "3", "4", "5", "6", "7", "8",
      "9", ":", "[", "\\", "]", "_", "a", "d", "e", "f", "i", "k", "l", "n",
      "r", "s", "t", "u", "v", "y", "{", "}">>

CharCode(c) == CHOOSE i \in 1..Len(ByteOrder) : ByteOrder[i] = c

RECURSIVE StringLess(_, _)
StringLess(a, b) ==
    IF b = <<>> THEN FALSE
    ELSE IF a = <<>> THEN TRUE
    ELSE IF Head(a) = Head(b) THEN StringLess(Tail(a), Tail(b))
    ELSE CharCode(Head(a)) < CharCode(Head(b))

\* integers numerically, strings by bytes, integers before strings
ElementLess(x, y) ==
    IF x[1] = "number" /\ y[1] = "number" THEN x[2] < y[2]
    ELSE IF x[1] = "number" THEN TRUE
    ELSE IF y[1] = "number" THEN FALSE
    ELSE StringLess(x[2], y[2])

\* element-wise, a shorter prefix first
RECURSIVE TupleLess(_, _)
TupleLess(a, b) ==
    IF b = <<>> THEN FALSE
    ELSE IF a = <<>> THEN TRUE
    ELSE IF Head(a) = Head(b) THEN TupleLess(Tail(a), Tail(b))
    ELSE ElementLess(Head(a), Head(b))

ValidElement(x) == x[1] \in {"number", "string"}

ValidTuple(k) ==
    k[1] = "array" /\ \A i \in 1..Len(k[2]) : ValidElement(k[2][i])

\* the key order on two keys of the same shape
KeyLess(a, b) ==
    IF ValidElement(a) /\ ValidElement(b) THEN ElementLess(a, b)
    ELSE TupleLess(a[2], b[2])

Comparable(a, b) ==
    \/ ValidElement(a) /\ ValidElement(b)
    \/ ValidTuple(a) /\ ValidTuple(b)

\* C10: all() returns exactly the live records, each once, in ascending key
\* order, whatever the order of the calls that made them live.
C10_AllSorted ==
    opened(1) =>
       /\ Len(all(1)) = size(1)
       /\ \A i \in 1..Len(all(1)) : all(1)[i] = records(1)[i][2]
       /\ \A i \in 1..Len(all(1)), j \in 1..Len(all(1)) :
             (i < j /\ Comparable(extractKeyFromRecord(1, all(1)[i]),
                                  extractKeyFromRecord(1, all(1)[j])))
             => KeyLess(extractKeyFromRecord(1, all(1)[i]),
                        extractKeyFromRecord(1, all(1)[j]))

----------------------------------------------------------------------------
(* The file as a log of operations *)

\* the key of an operation under a key specifier
KeyOf(specifier, operation) ==
    IF typeof(specifier) = "string" THEN Prop(operation, specifier[2])
    ELSE Arr([i \in 1..Len(specifier[2]) |->
                 Prop(operation, specifier[2][i][2])])

IsTombstone(operation) == Prop(operation, F_deleted) = Bool(TRUE)

\* the tombstone of a key: its key fields and $deleted: true
TombstoneOf(specifier, key) ==
    IF typeof(specifier) = "string"
    THEN Obj(<<<<specifier[2], key>>, <<F_deleted, Bool(TRUE)>>>>)
    ELSE Obj([i \in 1..Len(specifier[2]) |-> <<specifier[2][i][2], key[2][i]>>]
             \o <<<<F_deleted, Bool(TRUE)>>>>)

\* replay: the record of the last operation for the key, absent when that is
\* a tombstone or there is none
RECURSIVE ReplayGet(_, _, _)
ReplayGet(operations, specifier, key) ==
    IF operations = <<>> THEN Undef
    ELSE LET operation == operations[Len(operations)]
         IN IF KeyOf(specifier, operation) = key
            THEN (IF IsTombstone(operation) THEN Undef ELSE operation)
            ELSE ReplayGet(SubSeq(operations, 1, Len(operations) - 1),
                           specifier, key)

IsPrefix(a, b) == Len(a) <= Len(b) /\ SubSeq(b, 1, Len(a)) = a

\* the lines of b after its first n
LinesAfter(b, n) == {b[i] : i \in (n + 1)..Len(b)}

\* C11: the file is the source of truth. Right after open the table's state
\* is the replay of the file, so a record put through one handle is returned
\* by get on a Table opened afterwards on the same path, and a key deleted
\* before the open is absent.
C11_FileIsTruth ==
    \A h \in Handles :
       (last.op = "open" /\ last.h = h /\ opened(h)) =>
          \A k \in KeyArgs :
             /\ get(h, k) = ReplayGet(file, keySpecifier(h), k)
             /\ get(h, k) = lastPut[k]

\* C12: the log is append-only. A successful put appends exactly one record
\* line, a delete that returns true appends exactly one tombstone line, and
\* put, delete and clear change or remove no line already in the file.
C12_AppendOnly ==
    [][/\ (last'.op = "put" /\ last'.ret = Undef)
          => file' = Append(file, last'.arg)
       /\ (last'.op = "delete" /\ last'.ret = Bool(TRUE))
          => file' = Append(file, TombstoneOf(keySpecifier(last'.h), last'.arg))
       /\ last'.op \in {"put", "delete", "clear"} => IsPrefix(file, file')]_vars

\* C13: open fails with an IOError, yields no Table and creates no file when
\* the file does not exist and the create option is false or omitted.
C13_OpenMissingFile ==
    (/\ last.op = "open"
     /\ ~fileExists
     /\ Nullish(last.arg[2][2], Bool(FALSE)) = Bool(FALSE))
    => (last.ret = Throw("IOError") /\ ~opened(last.h))

\* C14: clear() makes every key absent and appends one tombstone per key
\* that was live before the call: the file after it is the file before it
\* followed by exactly those tombstones.
C14_ClearAppendsTombstones ==
    [][last'.op = "clear" =>
         LET h == last'.h
         IN /\ MapSize(tables'[h].records) = 0
            /\ IsPrefix(file, file')
            /\ Len(file') = Len(file) + size(h)
            /\ LinesAfter(file', Len(file))
               = {TombstoneOf(keySpecifier(h),
                              extractKeyFromRecord(h, records(h)[i][2])) :
                     i \in 1..Len(records(h))}]_vars

\* C15: compact() preserves the live state, and the file after it holds
\* exactly one record per live key and no tombstone, so that its replay
\* reproduces the same state.
C15_CompactPreserves ==
    [][last'.op = "compact" =>
         LET h == last'.h
         IN /\ \A k \in KeyArgs :
                  MapGet(tables'[h].records, serializeKey(k)) = get(h, k)
            /\ Len(file') = size(h)
            /\ {file'[i] : i \in 1..Len(file')}
               = {records(h)[i][2] : i \in 1..Len(records(h))}
            /\ \A k \in KeyArgs :
                  ReplayGet(file', keySpecifier(h), k) = get(h, k)]_vars

\* C16: with two handles open on one path, once a put of a record has
\* completed on one, get of its key on the other, opened with autoReload:
\* true, returns that record without the other being opened again.
C16_AutoReload ==
    \A h1 \in Handles, h2 \in Handles :
       (/\ h1 # h2
        /\ opened(h1) /\ opened(h2)
        /\ filePath(h1) = filePath(h2)
        /\ options(h2).autoReload = Bool(TRUE)
        /\ last.op = "put" /\ last.h = h1 /\ last.ret = Undef)
       => get(h2, extractKeyFromRecord(h1, last.arg)) = last.arg

\* ---------------------------------------------------------------------
\* The storage engine around the Table: Lock Manager, Replay Engine's
\* last-offset map and Transaction Engine. src/ declares their errors
\* (LockError, ConflictError, TransactionError), the lockTimeout option and
\* DEFAULT_LOCK_TIMEOUT, and holds none of their code, so the definitions
\* below follow the design document (4.3 to 4.6 and 5).
\* ---------------------------------------------------------------------

\* the most lines the engine's behaviours write, a compaction counting
\* as one
MaxLog == 2

EngineSpecifier == Str(F_id)

EnginePath == Str(<<"t">>)

EngineRecords == {Obj(<<<<F_id, k>>>>) : k \in EngineKeys}

EngineOperations ==
    EngineRecords \cup {TombstoneOf(EngineSpecifier, k) : k \in EngineKeys}

\* the keys in the order clear() and compact() write them
EngineKeySeq == <<Num(1), Str(<<"a">>)>>

\* the timeout of a Table opened without a lockTimeout option
lockTimeout == resolveOptions(Opt(Undef, Undef, Undef)).lockTimeout

LockError(path, timeout) == <<"throw", "LockError", path, timeout>>

ConflictError(among) == <<"throw", "ConflictError", among>>

TransactionError == Throw("TransactionError")

\* 4.3 buildState: the offset of the last operation of a key, 0 when none
RECURSIVE LastOffset(_, _)
LastOffset(operations, key) ==
    IF operations = <<>> THEN 0
    ELSE IF KeyOf(EngineSpecifier, operations[Len(operations)]) = key
         THEN Len(operations)
         ELSE LastOffset(SubSeq(operations, 1, Len(operations) - 1), key)

buildState(operations) ==
    [state |-> [k \in EngineKeys |->
                   ReplayGet(operations, EngineSpecifier, k)],
     lastOffset |-> [k \in EngineKeys |-> LastOffset(operations, k)]]

\* 4.3: one operation, written at offset, folded into a table state
applyOperation(v, operation, offset) ==
    LET k == KeyOf(EngineSpecifier, operation)
    IN [state |-> [v.state EXCEPT ![k] = IF IsTombstone(operation)
                                         THEN Undef ELSE operation],
        lastOffset |-> [v.lastOffset EXCEPT ![k] = offset]]

\* operations appended after a file of length n, folded in order
RECURSIVE applyAll(_, _, _)
applyAll(v, operations, n) ==
    IF operations = <<>> THEN v
    ELSE applyAll(applyOperation(v, Head(operations), n + 1),
                  Tail(operations), n + 1)

\* 4.4 clear: a tombstone for every live key of a table state
RECURSIVE TombstonesOf(_, _)
TombstonesOf(v, among) ==
    IF among = <<>> THEN <<>>
    ELSE (IF v.state[Head(among)] = Undef THEN <<>>
          ELSE <<TombstoneOf(EngineSpecifier, Head(among))>>)
         \o TombstonesOf(v, Tail(among))

\* 4.7 compact: one record for every live key of a table state
RECURSIVE RecordsOf(_, _)
RecordsOf(v, among) ==
    IF among = <<>> THEN <<>>
    ELSE (IF v.state[Head(among)] = Undef THEN <<>>
          ELSE <<v.state[Head(among)]>>)
         \o RecordsOf(v, Tail(among))

\* 4.6 commit: the touched keys whose last offset in the file is not the
\* one captured when the transaction first touched them
conflictKeys ==
    {k \in EngineKeys : /\ txn.captured[k] # -1
                        /\ LastOffset(file, k) # txn.captured[k]}

\* the lines a process may still append
Pending(p) ==
    (IF pc[p].at \in {"waiting", "holding"} /\ pc[p].kind \in
           {"put", "delete", "append", "compact"} THEN 1 ELSE 0)
    + (IF pc[p].at \in {"waiting", "holding"} /\ pc[p].kind = "clear"
       THEN Cardinality(EngineKeys) ELSE 0)
    + (IF p = Owner /\ txn.status = "Active" THEN Len(txn.staged) ELSE 0)

\* the writes still to come fit the bound on the writes of a behaviour
Room(n) == Len(authors) + Pending(Owner) + Pending(External) + n <= MaxLog

\* a process starts a write and waits for the lock
request(p, kind, arg, n) ==
    /\ pc[p].at = "idle"
    /\ Room(n)
    /\ pc' = [pc EXCEPT ![p] = [at |-> "waiting", kind |-> kind, arg |-> arg]]
    /\ UNCHANGED <<tables, file, fileExists, last, lastPut, lockHeld, view,
                   txn, authors,
                   replay>>

\* 4.4 put, delete and clear of the Table's owner
appendPut(record) == request(Owner, "put", record, 1)

appendDelete(key) ==
    IF view.state[key] = Undef
    THEN /\ pc[Owner].at = "idle"
         /\ last' = Call(Owner, "delete", key, Bool(FALSE))
         /\ UNCHANGED <<tables, file, fileExists, lastPut, lockHeld, pc,
                        view, txn, authors,
                   replay>>
    ELSE request(Owner, "delete", key, 1)

appendClear == request(Owner, "clear", Undef, Cardinality(EngineKeys))

\* 4.7 compact of the Table's owner
appendCompact == request(Owner, "compact", Undef, 1)

\* 4.6 commit: the transaction's batch waits for the lock as any write
commit ==
    /\ txn.status = "Active"
    /\ request(Owner, "commit", Undef, 0)

\* another process appends a record or a tombstone
appendExternal(operation) == request(External, "append", operation, 1)

\* the mutated acquire: granted whoever holds the lock
acquireUnguarded(p) ==
    /\ pc[p].at = "waiting"
    /\ lockHeld' = lockHeld \cup {p}
    /\ pc' = [pc EXCEPT ![p].at = "holding"]
    /\ UNCHANGED <<tables, file, fileExists, last, lastPut, view, txn,
                   authors, replay>>

\* 4.5 acquire: granted when no process holds the lock
acquire(p) ==
    /\ pc[p].at = "waiting"
    /\ lockHeld = {}
    /\ lockHeld' = lockHeld \cup {p}
    /\ pc' = [pc EXCEPT ![p].at = "holding"]
    /\ UNCHANGED <<tables, file, fileExists, last, lastPut, view, txn,
                   authors, replay>>

\* 4.5 acquire: not granted within the timeout while another holds the lock
acquireTimeout(p) ==
    /\ pc[p].at = "waiting"
    /\ lockHeld # {}
    /\ pc' = [pc EXCEPT ![p] = NotWriting]
    /\ last' = Call(p, pc[p].kind, pc[p].arg, LockError(EnginePath, lockTimeout))
    /\ UNCHANGED <<tables, file, fileExists, lastPut, lockHeld, view, txn,
                   authors, replay>>

\* the lines a write appends when the commit found these keys in conflict,
\* and who is their author
LinesOf(p, conflicts) ==
    CASE pc[p].kind \in {"put", "append"} -> <<pc[p].arg>>
      [] pc[p].kind = "delete" -> <<TombstoneOf(EngineSpecifier, pc[p].arg)>>
      [] pc[p].kind = "clear" -> TombstonesOf(view, EngineKeySeq)
      [] pc[p].kind = "commit" -> IF conflicts # {} THEN <<>> ELSE txn.staged
      [] OTHER -> <<>>

AuthorOf(p) ==
    IF pc[p].kind = "commit" THEN "txn"
    ELSE IF p = Owner THEN "owner" ELSE "external"

\* the append (for compact, the rewrite) of the process holding the lock
writeWith(p, conflicts) ==
    /\ pc[p].at = "holding"
    /\ file' = IF pc[p].kind = "compact" THEN RecordsOf(view, EngineKeySeq)
               ELSE file \o LinesOf(p, conflicts)
    /\ authors' = IF pc[p].kind = "compact" THEN Append(authors, "compact")
                  ELSE authors \o [i \in 1..Len(LinesOf(p, conflicts)) |->
                                      AuthorOf(p)]
    /\ view' = IF p # Owner THEN view
               ELSE IF pc[p].kind = "compact" THEN buildState(file')
               ELSE applyAll(view, LinesOf(p, conflicts), Len(file))
    /\ txn' = IF pc[p].kind # "commit" THEN txn
              ELSE IF conflicts # {}
                   THEN [txn EXCEPT !.status = "Aborted", !.staged = <<>>]
                   ELSE [txn EXCEPT !.status = "Committed"]
    /\ last' = Call(p, pc[p].kind, pc[p].arg,
                    IF pc[p].kind = "commit" /\ conflicts # {}
                    THEN ConflictError(conflicts)
                    ELSE IF pc[p].kind = "delete" THEN Bool(TRUE) ELSE Undef)
    /\ pc' = [pc EXCEPT ![p].at = "written"]
    /\ UNCHANGED <<tables, fileExists, lastPut, lockHeld,
                   replay>>

\* the mutated write: the batch is appended whatever the offsets say
writeUnchecked(p) == writeWith(p, {})

\* 4.6 commit compares the offsets under the lock; the other writes append
write(p) == writeWith(p, conflictKeys)

\* 4.5: the lock is released when the write's scope ends
release(p) ==
    /\ pc[p].at = "written"
    /\ lockHeld' = lockHeld \ {p}
    /\ pc' = [pc EXCEPT ![p] = NotWriting]
    /\ UNCHANGED <<tables, file, fileExists, last, lastPut, view, txn,
                   authors, replay>>

\* 4.4 autoReload: a read of the owner replays the file
reload ==
    /\ view' = buildState(file)
    /\ UNCHANGED <<tables, file, fileExists, last, lastPut, lockHeld, pc,
                   txn, authors,
                   replay>>

\* the mutated begin: begin() while Active starts the transaction afresh
beginAfresh ==
    /\ txn.status \in {"Idle", "Active"}
    /\ txn' = [NoTransaction EXCEPT !.status = "Active"]
    /\ last' = Call(Owner, "begin", Undef, Undef)
    /\ UNCHANGED <<tables, file, fileExists, lastPut, lockHeld, pc, view,
                   authors, replay>>

\* 4.6 begin: Idle to Active; while Active, a TransactionError
begin ==
    /\ txn.status \in {"Idle", "Active"}
    /\ txn' = IF txn.status = "Idle" THEN [txn EXCEPT !.status = "Active"]
              ELSE txn
    /\ last' = Call(Owner, "begin", Undef,
                    IF txn.status = "Idle" THEN Undef ELSE TransactionError)
    /\ UNCHANGED <<tables, file, fileExists, lastPut, lockHeld, pc, view,
                   authors, replay>>

\* 4.6: a staged operation goes to the staging area, and the last offset of
\* its key in the table state is captured the first time the key is touched
stage(op, operation) ==
    LET k == KeyOf(EngineSpecifier, operation)
    IN /\ txn.status = "Active"
       /\ pc[Owner].at = "idle"
       /\ Room(1)
       /\ txn' = [txn EXCEPT
                    !.staged = Append(@, operation),
                    !.captured[k] = IF @ = -1 THEN view.lastOffset[k] ELSE @,
                    !.touchedAt[k] = IF @ = -1 THEN Len(file) ELSE @]
       /\ last' = Call(Owner, op, operation, Undef)
       /\ UNCHANGED <<tables, file, fileExists, lastPut, lockHeld, pc, view,
                      authors, replay>>

\* the mutated staged put: the record goes to the table state at once
stagePutThrough(record) ==
    LET k == KeyOf(EngineSpecifier, record)
    IN /\ txn.status = "Active"
       /\ pc[Owner].at = "idle"
       /\ Room(1)
       /\ txn' = [txn EXCEPT
                    !.staged = Append(@, record),
                    !.captured[k] = IF @ = -1 THEN view.lastOffset[k] ELSE @,
                    !.touchedAt[k] = IF @ = -1 THEN Len(file) ELSE @]
       /\ view' = [view EXCEPT !.state[k] = record]
       /\ last' = Call(Owner, "txn.put", record, Undef)
       /\ UNCHANGED <<tables, file, fileExists, lastPut, lockHeld, pc,
                      authors, replay>>

stagePut(record) == stage("txn.put", record)

stageDelete(key) == stage("txn.delete", TombstoneOf(EngineSpecifier, key))

\* 4.6 abort: the staged operations are discarded
abort ==
    /\ txn.status = "Active"
    /\ pc[Owner].at = "idle"
    /\ txn' = [txn EXCEPT !.status = "Aborted", !.staged = <<>>]
    /\ last' = Call(Owner, "abort", Undef, Undef)
    /\ UNCHANGED <<tables, file, fileExists, lastPut, lockHeld, pc, view,
                   authors, replay>>

\* 7: commit() of a transaction that has ended is a TransactionError
commitAfterEnd ==
    /\ txn.status \in {"Committed", "Aborted"}
    /\ last' = Call(Owner, "commit", Undef, TransactionError)
    /\ UNCHANGED <<tables, file, fileExists, lastPut, lockHeld, pc, view,
                   txn, authors,
                   replay>>

InitEngine ==
    /\ tables = [h \in Handles |-> NoTable]
    /\ file = <<>>
    /\ fileExists = TRUE
    /\ last = Call(0, "none", Undef, Undef)
    /\ lastPut = [k \in KeyArgs |-> Undef]
    /\ EngineAtRest

\* the owner's Table and transaction, and another writer, on one file
NextEngine ==
    \/ \E record \in EngineRecords : appendPut(record)
    \/ \E key \in EngineKeys : appendDelete(key)
    \/ appendClear
    \/ \E operation \in EngineOperations : appendExternal(operation)
    \/ \E p \in Procs : acquire(p)
    \/ \E p \in Procs : acquireTimeout(p)
    \/ \E p \in Procs : write(p)
    \/ \E p \in Procs : release(p)
    \/ reload
    \/ begin
    \/ \E record \in EngineRecords : stagePut(record)
    \/ \E key \in EngineKeys : stageDelete(key)
    \/ commit
    \/ abort
    \/ commitAfterEnd

SpecEngine == InitEngine /\ [][NextEngine]_vars

\* the same, and the owner compacts
NextLock ==
    \/ NextEngine
    \/ appendCompact

SpecLock == InitEngine /\ [][NextLock]_vars


\* the longest sequence of operations that is replayed
MaxOps == 3

\* the mutated incremental replay: the offsets of a piece start anew
replayNextFromZero(n) ==
    /\ replay.at + n <= Len(replay.operations)
    /\ replay' = [replay EXCEPT
                    !.at = @ + n,
                    !.state = applyAll(@,
                                 SubSeq(replay.operations, replay.at + 1,
                                        replay.at + n),
                                 0)]
    /\ UNCHANGED <<tables, file, fileExists, last, lastPut, lockHeld, pc,
                   view, txn, authors>>

\* 4.3 incremental replay: the next n operations are folded into the state
\* built so far, their offsets going on from the operations before them
replayNext(n) ==
    /\ replay.at + n <= Len(replay.operations)
    /\ replay' = [replay EXCEPT
                    !.at = @ + n,
                    !.state = applyAll(@,
                                 SubSeq(replay.operations, replay.at + 1,
                                        replay.at + n),
                                 replay.at)]
    /\ UNCHANGED <<tables, file, fileExists, last, lastPut, lockHeld, pc,
                   view, txn, authors>>

\* any sequence of records and tombstones, nothing of it folded in yet
InitReplay ==
    /\ tables = [h \in Handles |-> NoTable]
    /\ file = <<>>
    /\ fileExists = FALSE
    /\ last = Call(0, "none", Undef, Undef)
    /\ lastPut = [k \in KeyArgs |-> Undef]
    /\ lockHeld = {}
    /\ pc = [p \in Procs |-> NotWriting]
    /\ view = EmptyState
    /\ txn = NoTransaction
    /\ authors = <<>>
    /\ \E n \in 0..MaxOps :
          \E operations \in [1..n -> EngineOperations] :
             replay = [operations |-> operations, at |-> 0,
                       state |-> EmptyState]

NextReplay == \E n \in 1..MaxOps : replayNext(n)

SpecReplay == InitReplay /\ [][NextReplay]_vars

\* ---------------------------------------------------------------------
\* Transactions and the lock
\* ---------------------------------------------------------------------

\* the step in which commit(), holding the lock, appends or fails
CommitDecides ==
    /\ pc[Owner].at = "holding"
    /\ pc[Owner].kind = "commit"
    /\ pc'[Owner].at = "written"

\* an operation of key k was appended after the transaction first touched k
WrittenSinceTouch(k) ==
    /\ txn.touchedAt[k] # -1
    /\ \E i \in (txn.touchedAt[k] + 1)..Len(file) :
          KeyOf(EngineSpecifier, file[i]) = k

IsConflictError(ret) ==
    Len(ret) = 3 /\ ret[1] = "throw" /\ ret[2] = "ConflictError"

StagedKeys(staged) ==
    {KeyOf(EngineSpecifier, staged[i]) : i \in 1..Len(staged)}

\* C18: a staged put or delete of an Active transaction changes neither the
\* file nor the table state; a successful commit() appends the staged
\* operations together, in staging order, and the table state then shows,
\* for each staged key, its last staged operation; abort() discards them
\* and changes neither the file nor the table state.
C18_StagedInvisible ==
    [][/\ (txn.status = "Active" /\ txn'.staged # txn.staged
             /\ txn'.status = "Active")
          => /\ file' = file
             /\ view' = view
       /\ (txn.status = "Active" /\ txn'.status = "Active")
          => \A i \in 1..Len(authors') : authors'[i] # "txn"
       /\ (CommitDecides /\ txn'.status = "Committed")
          => /\ file' = file \o txn.staged
             /\ \A k \in EngineKeys :
                   view'.state[k] =
                      IF k \in StagedKeys(txn.staged)
                      THEN ReplayGet(txn.staged, EngineSpecifier, k)
                      ELSE view.state[k]
       /\ (txn.status = "Active" /\ last'.op = "abort")
          => /\ txn'.status = "Aborted"
             /\ txn'.staged = <<>>
             /\ file' = file
             /\ view' = view]_vars

\* a transaction that staged a put and then a delete of one key, committed:
\* both lines are the end of the file, in that order, and the key is absent
C18_Witness ==
    /\ last.h = Owner /\ last.op = "commit" /\ last.ret = Undef
    /\ txn.status = "Committed"
    /\ Len(txn.staged) = 2
    /\ ~IsTombstone(txn.staged[1])
    /\ IsTombstone(txn.staged[2])
    /\ KeyOf(EngineSpecifier, txn.staged[1])
       = KeyOf(EngineSpecifier, txn.staged[2])
    /\ SubSeq(file, Len(file) - 1, Len(file)) = txn.staged
    /\ view.state[KeyOf(EngineSpecifier, txn.staged[1])] = Undef

\* the moves of a transaction's status
TransactionMoves ==
    {<<"Idle", "Active">>, <<"Active", "Committed">>, <<"Active", "Aborted">>}

\* C19: the status of a transaction changes only from Idle to Active and
\* from Active to Committed or Aborted; once Committed or Aborted it stays
\* so and no line of the transaction is appended any more; begin() while
\* it is Active fails with a TransactionError and leaves it as it was.
C19_Lifecycle ==
    [][/\ txn'.status # txn.status
          => <<txn.status, txn'.status>> \in TransactionMoves
       /\ txn.status \in {"Committed", "Aborted"}
          => /\ txn'.status = txn.status
             /\ Cardinality({i \in 1..Len(authors') : authors'[i] = "txn"})
                = Cardinality({i \in 1..Len(authors) : authors[i] = "txn"})
       /\ (txn.status = "Active" /\ last'.op = "begin" /\ last' # last)
          => /\ last'.ret = TransactionError
             /\ txn' = txn
             /\ file' = file]_vars

\* begin() was called on an Active transaction holding a staged operation
C19_Witness ==
    /\ last.h = Owner /\ last.op = "begin" /\ last.ret = TransactionError
    /\ txn.status = "Active"
    /\ txn.staged # <<>>

IsLockError(ret) == Len(ret) = 4 /\ ret[1] = "throw" /\ ret[2] = "LockError"

RunAlone(op, arg) ==
    CASE op = "put" ->
            MapSet(records(1), serializeKey(extractKeyFromRecord(1, arg)), arg)
      [] op = "delete" -> MapDelete(records(1), serializeKey(arg))
      [] op = "clear" -> <<>>
      [] OTHER -> records(1)

Replayed == SubSeq(replay.operations, 1, replay.at)

\* C22: a sequence of operations folded in pieces, each piece into the
\* state the pieces before it gave, gives the state and the last offsets
\* that folding the same operations in one go gives, wherever the pieces
\* are cut.
C22_SplitInvariant ==
    /\ replay.state = applyAll(EmptyState, Replayed, 0)
    /\ replay.state = buildState(Replayed)

\* a put, a delete and a put again of one key are folded in: the key is
\* live with the last record, written at offset 3
C22_Witness ==
    /\ replay.at = 3
    /\ Len(replay.operations) = 3
    /\ \E k \in EngineKeys :
          /\ \A i \in 1..3 : KeyOf(EngineSpecifier, replay.operations[i]) = k
          /\ IsTombstone(replay.operations[2])
          /\ ~IsTombstone(replay.operations[3])
          /\ replay.state.state[k] = replay.operations[3]
          /\ replay.state.lastOffset[k] = 3

\* ---------------------------------------------------------------------
\* Tuple keys
\* ---------------------------------------------------------------------

\* the number of elements of the keys of the Table in handle 1
TupleArity == Len(keySpecifier(1)[2])

\* C23: a put whose tuple key has no element fails with a KeyError, one
\* whose key has 1 to 16 elements stores the record, and one whose key has
\* 17 or more elements fails with a LimitError; a rejected put stores
\* nothing.
C23_TupleArity ==
    (opened(1) /\ typeof(keySpecifier(1)) = "object"
       /\ keySpecifier(1)[1] = "array")
    => /\ (last.op = "put" /\ TupleArity = 0)
          => last.ret = Throw("KeyError")
       /\ (last.op = "put" /\ TupleArity \in 1..MAX_TUPLE_ELEMENTS)
          => /\ last.ret = Undef
             /\ get(1, extractKeyFromRecord(1, last.arg)) = last.arg
       /\ (last.op = "put" /\ TupleArity > MAX_TUPLE_ELEMENTS)
          => last.ret = Throw("LimitError")
       /\ TupleArity \notin 1..MAX_TUPLE_ELEMENTS => records(1) = <<>>

\* ---------------------------------------------------------------------
\* Accessors and iterators
\* ---------------------------------------------------------------------

\* C24: once a Table is open, no call changes what its accessors key, path
\* and isReadOnly return: they are what open resolved from its arguments.
C24_AccessorsFixed ==
    /\ [](opened(1) /\ last.op = "open"
            => /\ getKey(1) = Nullish(last.arg[2][4], Str(F_id))
               /\ getPath(1) = last.arg[2][1]
               /\ isReadOnly(1) = Nullish(last.arg[2][3], Bool(FALSE)))
    /\ [][opened(1)
            => /\ getKey(1)' = getKey(1)
               /\ getPath(1)' = getPath(1)
               /\ isReadOnly(1)' = isReadOnly(1)]_vars

\* a read-only Table with a tuple key specifier after puts and a delete
C24_Witness ==
    /\ opened(1)
    /\ getKey(1) = Arr(<<Str(F_id)>>)
    /\ isReadOnly(1) = Bool(TRUE)
    /\ last.op = "delete" /\ last.ret = Bool(TRUE)
    /\ size(1) > 0

\* the key a put or a delete is about
WrittenKey(call) ==
    IF call.op = "put" THEN extractKeyFromRecord(1, call.arg) ELSE call.arg

\* C25: a put of a record with key k, and a delete of k, leave has(j) and
\* get(j) as they were for every key j other than k, and change size by at
\* most 1.
C25_SingleKeyFrame ==
    [][(opened(1) /\ last'.op \in {"put", "delete"})
         => /\ \A j \in KeyArgs :
                  j # WrittenKey(last')
                  => /\ has(1, j)' = has(1, j)
                     /\ get(1, j)' = get(1, j)
            /\ size(1)' - size(1) \in {-1, 0, 1}]_vars

\* keys(), values() and entries() yield the same entries in the same order,
\* and no key twice
IteratorsAgree ==
    /\ Len(keys(1)) = Len(values(1))
    /\ Len(entries(1)) = Len(keys(1))
    /\ \A i \in 1..Len(keys(1)) :
          /\ entries(1)[i] = Arr(<<keys(1)[i], values(1)[i]>>)
          /\ \A j \in 1..Len(keys(1)) : keys(1)[j] = keys(1)[i] => j = i

\* each live key has its own entry, holding its record, and there is no
\* other entry
OnePerLiveKey ==
    /\ Len(keys(1)) = Cardinality({k \in KeyUniverse : has(1, k)})
    /\ \A k \in KeyUniverse :
          has(1, k) => \E i \in 1..Len(keys(1)) :
                          /\ keys(1)[i] = serializeKey(k)
                          /\ values(1)[i] = get(1, k)

\* a put of a live key keeps the order, a put of a key that is not live
\* adds it at the end, and a delete takes the key out and keeps the others
\* in order
OrderKept ==
    /\ last'.op = "put"
       => keys(1)' = IF has(1, WrittenKey(last')) THEN keys(1)
                     ELSE Append(keys(1), serializeKey(WrittenKey(last')))
    /\ last'.op = "delete"
       => keys(1)' = SelectSeq(keys(1),
                               LAMBDA x : x # serializeKey(last'.arg))

\* C26: keys(), values() and entries() yield the live entries, one for each
\* live key, all three in one order, the order in which the keys last
\* became live.
C26_IterationOrder ==
    /\ [](opened(1) => IteratorsAgree /\ OnePerLiveKey)
    /\ [][opened(1) => OrderKept]_vars

====
